---- MODULE Spec2Model ----
(***************************************************************************)
(* Model of yma-anonymizer: the hospital-API client (app/services/simplex), *)
(* the model-API client (app/services/llm) and the two request handlers    *)
(* of app/main.  One inbound request is processed at a time; the           *)
(* suspension points of the code (the upstream calls and the backoff       *)
(* sleeps) are the steps of the state machine.                             *)
(***************************************************************************)
EXTENDS Integers, Sequences, FiniteSets, TLC

\* ---------------------------------------------------------------------------
\* Bounds of the model
\* ---------------------------------------------------------------------------

\* range of upstream status codes explored by the classification probe
MinStatus == 100
MaxStatus == 620
\* largest attempt number handed to the wait function by the backoff probe
MaxAttemptNumber == 28
\* number of calls of _request in flight at once
NumCalls == 2

\* ---------------------------------------------------------------------------
\* Program constants
\* ---------------------------------------------------------------------------

SIMPLEX_RETRY_ATTEMPTS == 3
RETRY_ATTEMPTS_COUNT == 3

\* httpx.codes
OK == 200
MULTIPLE_CHOICES == 300
BAD_REQUEST == 400
UNAUTHORIZED == 401
NOT_FOUND == 404
TOO_MANY_REQUESTS == 429
INTERNAL_SERVER_ERROR == 500

\* fastapi.status
HTTP_200_OK == 200
HTTP_500_INTERNAL_SERVER_ERROR == 500
HTTP_502_BAD_GATEWAY == 502

\* ---------------------------------------------------------------------------
\* Small helpers
\* ---------------------------------------------------------------------------

Min2(a, b) == IF a <= b THEN a ELSE b
Max2(a, b) == IF a >= b THEN a ELSE b

RECURSIVE Pow(_, _)
Pow(b, e) == IF e = 0 THEN 1 ELSE b * Pow(b, e - 1)

\* ---------------------------------------------------------------------------
\* JSON values (what response.json() yields) as tagged records
\* ---------------------------------------------------------------------------

JBool(b) == [t |-> "bool", b |-> b, s |-> "", n |-> 0]
JStr(s) == [t |-> "str", b |-> FALSE, s |-> s, n |-> 0]
JInt(n) == [t |-> "int", b |-> FALSE, s |-> "", n |-> n]
JNull == [t |-> "null", b |-> FALSE, s |-> "", n |-> 0]

\* ---------------------------------------------------------------------------
\* Exceptions of the hospital-API client
\* ---------------------------------------------------------------------------

\* an exception instance: its class, its message and the status code
\* formatted into the message (0 when the message carries none)
Exc(type, msg, code) == [type |-> type, msg |-> msg, code |-> code]
NoExc == Exc("None", "", 0)

\* str(exc)
StrOf(exc) == <<exc.msg, exc.code>>

\* the tuple handed to retry_if_exception_type in simplex_retry
SimplexRetryTypes == {"SimplexNetworkError", "SimplexServerError", "SimplexRateLimitError"}

simplex_retry_no_ratelimit(exc) == exc.type \in {"SimplexNetworkError", "SimplexServerError"}
simplex_retry_any(exc) == exc.type # "None"
\* retry=retry_if_exception_type(...): decided by the exception's class alone
simplex_retry_predicate(exc) == exc.type \in SimplexRetryTypes

stop_after_two(attempt_number) == attempt_number >= 2
stop_after_four(attempt_number) == attempt_number >= 4
\* stop=stop_after_attempt(SIMPLEX_RETRY_ATTEMPTS)
simplex_stop(attempt_number) == attempt_number >= SIMPLEX_RETRY_ATTEMPTS

\* tenacity.wait_exponential.__call__:
\* multiplier * exp_base ** (attempt_number - 1), clamped to [min, max]
wait_exponential(multiplier, max, exp_base, min, attempt_number) ==
    Max2(Max2(0, min), Min2(multiplier * Pow(exp_base, attempt_number - 1), max))

simplex_wait_from_attempt(attempt_number) ==
    Max2(0, Min2(2 * Pow(2, attempt_number), 120))
simplex_wait_uncapped(attempt_number) ==
    2 * Pow(2, attempt_number - 1)
\* wait=wait_exponential(multiplier=2, max=120, exp_base=2) of simplex_retry
simplex_wait(attempt_number) == wait_exponential(2, 120, 2, 0, attempt_number)

\* wait=wait_exponential(multiplier=2, max=120, exp_base=2) of openai_retry
openai_wait(attempt_number) == wait_exponential(2, 120, 2, 0, attempt_number)

\* ---------------------------------------------------------------------------
\* One attempt of SimplexService._request: classification of the HTTP outcome
\* ---------------------------------------------------------------------------

\* an upstream reply: transport is "ok" or the httpx exception raised while
\* sending; is_json tells whether response.json() succeeds; payload is the
\* decoded value
Reply(transport, status_code, is_json, payload) ==
    [transport |-> transport, status_code |-> status_code, is_json |-> is_json, payload |-> payload]

Returned(value) == [tag |-> "return", value |-> value, exc |-> NoExc]
Raised(exc) == [tag |-> "raise", value |-> JNull, exc |-> exc]

_request_5xx_only(reply) ==
    IF reply.transport # "ok"
    THEN Raised(Exc("SimplexNetworkError", "Network error during Simplex request", 0))
    ELSE IF OK <= reply.status_code /\ reply.status_code < MULTIPLE_CHOICES
    THEN IF reply.is_json
         THEN Returned(reply.payload)
         ELSE Raised(Exc("SimplexClientError", "Failed to parse JSON response", 0))
    ELSE IF reply.status_code = UNAUTHORIZED
    THEN Raised(Exc("SimplexAuthError", "Unauthorized: invalid Simplex API token", 0))
    ELSE IF reply.status_code = NOT_FOUND
    THEN Raised(Exc("SimplexNotFoundError", "Resource not found in Simplex", 0))
    ELSE IF reply.status_code = TOO_MANY_REQUESTS
    THEN Raised(Exc("SimplexRateLimitError", "Rate limit exceeded", 0))
    ELSE IF BAD_REQUEST <= reply.status_code /\ reply.status_code < INTERNAL_SERVER_ERROR
    THEN Raised(Exc("SimplexClientError", "Client error from Simplex", reply.status_code))
    ELSE IF reply.status_code >= INTERNAL_SERVER_ERROR /\ reply.status_code < 600
    THEN Raised(Exc("SimplexServerError", "Server error from Simplex", reply.status_code))
    ELSE Raised(Exc("SimplexClientError", "Unexpected status from Simplex", reply.status_code))
_request_invalid_json_server_error(reply) ==
    IF reply.transport # "ok"
    THEN Raised(Exc("SimplexNetworkError", "Network error during Simplex request", 0))
    ELSE IF OK <= reply.status_code /\ reply.status_code < MULTIPLE_CHOICES
    THEN IF reply.is_json
         THEN Returned(reply.payload)
         ELSE Raised(Exc("SimplexServerError", "Failed to parse JSON response", 0))
    ELSE IF reply.status_code = UNAUTHORIZED
    THEN Raised(Exc("SimplexAuthError", "Unauthorized: invalid Simplex API token", 0))
    ELSE IF reply.status_code = NOT_FOUND
    THEN Raised(Exc("SimplexNotFoundError", "Resource not found in Simplex", 0))
    ELSE IF reply.status_code = TOO_MANY_REQUESTS
    THEN Raised(Exc("SimplexRateLimitError", "Rate limit exceeded", 0))
    ELSE IF BAD_REQUEST <= reply.status_code /\ reply.status_code < INTERNAL_SERVER_ERROR
    THEN Raised(Exc("SimplexClientError", "Client error from Simplex", reply.status_code))
    ELSE IF reply.status_code >= INTERNAL_SERVER_ERROR
    THEN Raised(Exc("SimplexServerError", "Server error from Simplex", reply.status_code))
    ELSE Raised(Exc("SimplexClientError", "Unexpected status from Simplex", reply.status_code))
\* the body of _request, first match wins
_request(reply) ==
    IF reply.transport # "ok"
    THEN Raised(Exc("SimplexNetworkError", "Network error during Simplex request", 0))
    ELSE IF OK <= reply.status_code /\ reply.status_code < MULTIPLE_CHOICES
    THEN IF reply.is_json
         THEN Returned(reply.payload)
         ELSE Raised(Exc("SimplexClientError", "Failed to parse JSON response", 0))
    ELSE IF reply.status_code = UNAUTHORIZED
    THEN Raised(Exc("SimplexAuthError", "Unauthorized: invalid Simplex API token", 0))
    ELSE IF reply.status_code = NOT_FOUND
    THEN Raised(Exc("SimplexNotFoundError", "Resource not found in Simplex", 0))
    ELSE IF reply.status_code = TOO_MANY_REQUESTS
    THEN Raised(Exc("SimplexRateLimitError", "Rate limit exceeded", 0))
    ELSE IF BAD_REQUEST <= reply.status_code /\ reply.status_code < INTERNAL_SERVER_ERROR
    THEN Raised(Exc("SimplexClientError", "Client error from Simplex", reply.status_code))
    ELSE IF reply.status_code >= INTERNAL_SERVER_ERROR
    THEN Raised(Exc("SimplexServerError", "Server error from Simplex", reply.status_code))
    ELSE Raised(Exc("SimplexClientError", "Unexpected status from Simplex", reply.status_code))

\* ---------------------------------------------------------------------------
\* Upstream payloads and SimplexPatientVisitHistoryResponse.model_validate
\* ---------------------------------------------------------------------------

JMissing == [t |-> "missing", b |-> FALSE, s |-> "", n |-> 0]

\* required string fields of SimplexPatientVisitHistoryItem
ItemRequiredFields ==
    {"Patient_Visit_Medical_Family_Social_History_Details_Serial_No",
     "Patient_Basic_Details_Serial_No", "Patient_Visit_Basic_Details_Serial_No",
     "Past_MH", "Is_Past_MH_a_Warning", "Past_Surgical_MH",
     "Is_Past_Surgical_MH_a_Warning", "Other_Family_MH",
     "Is_Other_Family_MH_a_Warning", "Med_Fam_Social_History_Note",
     "Is_Med_Fam_Social_History_Note_a_Warning", "Permanent_MRN_No",
     "Permanent_Visit_No", "Patient_Visit_Registered_Date_Time", "Active_Status"}
\* fields declared `str | None = None`
ItemOptionalFields == {"Patient_Visit_Registration_Note"}
ItemFields == ItemRequiredFields \cup ItemOptionalFields

\* a decoded JSON document: top is the JSON type of the document itself, the
\* three members are JMissing when absent; data_t is the JSON type of `data`
\* and items its elements when it is a list
Payload(top, status, message, data_t, items) ==
    [top |-> top, status |-> status, message |-> message, data_t |-> data_t, items |-> items]

\* strings pydantic's lax mode accepts for a bool field
BoolTrueStrings == {"1", "on", "t", "true", "y", "yes"}
BoolFalseStrings == {"0", "off", "f", "false", "n", "no"}

bool_valid(v) ==
    \/ v.t = "bool"
    \/ v.t = "int" /\ v.n \in {0, 1}
    \/ v.t = "str" /\ v.s \in (BoolTrueStrings \cup BoolFalseStrings)
bool_value(v) ==
    IF v.t = "bool" THEN v.b
    ELSE IF v.t = "int" THEN v.n = 1
    ELSE v.s \in BoolTrueStrings

item_valid(item) ==
    /\ \A f \in ItemRequiredFields : item[f].t = "str"
    /\ \A f \in ItemOptionalFields : item[f].t \in {"str", "null", "missing"}
item_value(item) ==
    [f \in ItemFields |-> IF item[f].t = "str" THEN item[f] ELSE JNull]

model_validate_ok_data_required(payload) ==
    /\ payload.top = "dict"
    /\ bool_valid(payload.status)
    /\ payload.message.t = "str"
    /\ payload.data_t = "list"
    /\ \A i \in 1..Len(payload.items) : item_valid(payload.items[i])
\* does model_validate(payload) succeed
model_validate_ok(payload) ==
    /\ payload.top = "dict"
    /\ bool_valid(payload.status)
    /\ payload.message.t = "str"
    /\ payload.data_t \in {"list", "missing"}
    /\ payload.data_t = "list" => \A i \in 1..Len(payload.items) : item_valid(payload.items[i])

\* a SimplexPatientVisitHistoryResponse instance
History(status, message, data) ==
    [present |-> TRUE, status |-> status, message |-> message, data |-> data]
NoHistory == [present |-> FALSE, status |-> FALSE, message |-> "", data |-> <<>>]

model_validate_reversed(payload) ==
    History(bool_value(payload.status), payload.message.s,
            IF payload.data_t = "list"
            THEN [i \in 1..Len(payload.items) |->
                    item_value(payload.items[Len(payload.items) + 1 - i])]
            ELSE <<>>)
\* the instance model_validate(payload) builds when it succeeds
model_validate(payload) ==
    History(bool_value(payload.status), payload.message.s,
            IF payload.data_t = "list"
            THEN [i \in 1..Len(payload.items) |-> item_value(payload.items[i])]
            ELSE <<>>)

ValidationError == Exc("ValidationError", "validation errors for SimplexPatientVisitHistoryResponse", 0)

\* resp.model_copy(update={"message": m})
model_copy_message(resp, m) == [resp EXCEPT !.message = m]

\* ---------------------------------------------------------------------------
\* SimplexAppointmentsResponse.model_validate
\* ---------------------------------------------------------------------------

\* required string fields of SimplexAppointmentInfo
InfoRequiredFields ==
    {"doctor_name", "doctor_id", "doctor_speciality", "appointment_type",
     "appointment_start_date_time", "appointmet_end_date_time",
     "appointment_create_date_time", "appointment_modification_date_time",
     "appointment_id", "appointment_status", "CPT_code_service", "ID_service",
     "Description_service"}
InfoOptionalFields == {"appointment_note", "Appointment_taken_from"}
InfoFields == InfoRequiredFields \cup InfoOptionalFields

\* required string fields of SimplexAppointmentRecord
RecordRequiredFields ==
    {"patient_id", "Permanent_MRNo", "Temporary_MRN_No", "patient_first_name", "mobile_number"}
RecordOptionalFields ==
    {"patient_last_name", "mobile_country_code", "email_id", "Source_of_Contact"}
RecordFields == RecordRequiredFields \cup RecordOptionalFields

\* an element of `data`: its own members, the JSON type of `appointment` and
\* the members of `appointment` when it is an object
AppointmentRecord(fields, appointment_t, appointment) ==
    [fields |-> fields, appointment_t |-> appointment_t, appointment |-> appointment]

\* a decoded JSON document offered to SimplexAppointmentsResponse
AppointmentsPayload(top, error_count, message, result_count, data_t, items) ==
    [top |-> top, error_count |-> error_count, message |-> message,
     result_count |-> result_count, data_t |-> data_t, items |-> items]

\* decimal strings, at the position of their value plus one
DecimalStrings == << "0", "1", "2", "3" >>

\* pydantic's lax mode for an int field: an int, a bool, or a decimal string
int_valid(v) ==
    \/ v.t \in {"int", "bool"}
    \/ v.t = "str" /\ \E i \in 1..Len(DecimalStrings) : DecimalStrings[i] = v.s
int_value(v) ==
    IF v.t = "int" THEN v.n
    ELSE IF v.t = "bool" THEN (IF v.b THEN 1 ELSE 0)
    ELSE (CHOOSE i \in 1..Len(DecimalStrings) : DecimalStrings[i] = v.s) - 1

info_valid(info) ==
    /\ \A f \in InfoRequiredFields : info[f].t = "str"
    /\ \A f \in InfoOptionalFields : info[f].t \in {"str", "null", "missing"}
record_valid(rec) ==
    /\ \A f \in RecordRequiredFields : rec.fields[f].t = "str"
    /\ \A f \in RecordOptionalFields : rec.fields[f].t \in {"str", "null", "missing"}
    /\ rec.appointment_t = "dict"
    /\ info_valid(rec.appointment)
record_value(rec) ==
    [fields |-> [f \in RecordFields |->
                    IF rec.fields[f].t = "str" THEN rec.fields[f] ELSE JNull],
     appointment |-> [f \in InfoFields |->
                    IF rec.appointment[f].t = "str" THEN rec.appointment[f] ELSE JNull]]

\* does SimplexAppointmentsResponse.model_validate(payload) succeed
appointments_validate_ok(payload) ==
    /\ payload.top = "dict"
    /\ int_valid(payload.error_count)
    /\ payload.message.t = "str"
    /\ int_valid(payload.result_count)
    /\ payload.data_t \in {"list", "missing"}
    /\ payload.data_t = "list" => \A i \in 1..Len(payload.items) : record_valid(payload.items[i])

\* a SimplexAppointmentsResponse instance
Appointments(error_count, message, result_count, data) ==
    [present |-> TRUE, error_count |-> error_count, message |-> message,
     result_count |-> result_count, data |-> data]

\* the instance SimplexAppointmentsResponse.model_validate(payload) builds
appointments_validate(payload) ==
    Appointments(int_value(payload.error_count), payload.message.s,
                 int_value(payload.result_count),
                 IF payload.data_t = "list"
                 THEN [i \in 1..Len(payload.items) |-> record_value(payload.items[i])]
                 ELSE <<>>)

AppointmentsValidationError ==
    Exc("ValidationError", "validation errors for SimplexAppointmentsResponse", 0)

\* what appointments_by_date logs once the payload has validated
appointments_by_date_log(result) ==
    (IF result.error_count # 0
     THEN << [event |-> "Simplex responded with non-zero error_count", level |-> "warning",
              error_count |-> result.error_count] >>
     ELSE <<>>)
    \o << [event |-> "Fetched appointments from Simplex", level |-> "info",
           result_count |-> result.result_count] >>

\* ---------------------------------------------------------------------------
\* The model-API client
\* ---------------------------------------------------------------------------

\* the classes an exception of the given class is an instance of
Bases(type) ==
    CASE type = "RateLimitError" -> {"RateLimitError", "APIStatusError", "APIError", "Exception"}
      [] type = "BadRequestError" -> {"BadRequestError", "APIStatusError", "APIError", "Exception"}
      [] type = "APIConnectionError" -> {"APIConnectionError", "APIError", "Exception"}
      [] type = "APITimeoutError" -> {"APITimeoutError", "APIConnectionError", "APIError", "Exception"}
      [] type = "TimeoutError" -> {"TimeoutError", "OSError", "Exception"}
      [] type = "ValueError" -> {"ValueError", "Exception"}
      [] type = "IndexError" -> {"IndexError", "LookupError", "Exception"}
      [] OTHER -> {}

\* the tuple handed to retry_if_exception_type in openai_retry
OpenAIRetryTypes == {"RateLimitError", "APIError", "APIConnectionError", "APITimeoutError", "TimeoutError"}

\* retry=retry_if_exception_type(...) of openai_retry: isinstance test
openai_retry_predicate(exc) == Bases(exc.type) \cap OpenAIRetryTypes # {}

\* stop=stop_after_attempt(RETRY_ATTEMPTS_COUNT) of openai_retry
openai_stop(attempt_number) == attempt_number >= RETRY_ATTEMPTS_COUNT

chat_completion_retries_everything(exc, attempt_number) ==
    ~openai_stop(attempt_number)
\* chat_completion and anonymize carry no retry decorator: a failed call to
\* client.chat.completions.create is logged and re-raised, never repeated
chat_completion_retries(exc, attempt_number) == FALSE

\* a reply of client.chat.completions.create: the exception it raises (NoExc
\* when it returns), the contents of the choices of the ChatCompletion, and
\* whether the completion carries usage data
LLMReply(exc, choices, has_usage) == [exc |-> exc, choices |-> choices, has_usage |-> has_usage]

chat_completion_calls_skip_empty(prompt) == IF prompt = "" THEN 0 ELSE 1
\* calls of client.chat.completions.create one execution of chat_completion
\* makes for the given prompt: the body has no branch on the prompt before
\* the call (`if system_prompt:` tests the system prompt only)
chat_completion_calls(prompt) == 1

\* one execution of the body of chat_completion
chat_completion(reply) ==
    IF reply.exc.type # "None" THEN Raised(reply.exc)
    ELSE IF Len(reply.choices) = 0 THEN Raised(Exc("IndexError", "list index out of range", 0))
    ELSE Returned(reply.choices[1])

\* ---------------------------------------------------------------------------
\* Log entries
\* ---------------------------------------------------------------------------

NoBody == [is_json |-> FALSE, payload |-> Payload("dict", JMissing, JMissing, "missing", <<>>)]

\* one structured log entry; fields an event does not carry keep their defaults
LogEntry(event, level) ==
    [event |-> event, level |-> level, status_code |-> 0, body |-> NoBody,
     attempt |-> 0, wait_seconds |-> 0, error |-> <<"", 0>>, error_type |-> ""]

\* SimplexService._log_error_response: status code and body, parsed when it parses
_log_error_response(reply) ==
    [LogEntry("simplex_error_response", "error") EXCEPT
        !.status_code = reply.status_code,
        !.body = [is_json |-> reply.is_json, payload |-> reply.payload]]

_request_log_silent_404(reply) ==
    IF reply.transport # "ok"
    THEN << [LogEntry("network_error", "warning") EXCEPT !.error = <<reply.transport, 0>>] >>
    ELSE IF OK <= reply.status_code /\ reply.status_code < MULTIPLE_CHOICES
    THEN IF reply.is_json
         THEN << LogEntry("success", "info") >>
         ELSE << LogEntry("success", "info"), LogEntry("invalid_json", "error") >>
    ELSE IF reply.status_code = NOT_FOUND THEN <<>>
    ELSE << _log_error_response(reply) >>
\* the entries one attempt of _request writes
_request_log(reply) ==
    IF reply.transport # "ok"
    THEN << [LogEntry("network_error", "warning") EXCEPT !.error = <<reply.transport, 0>>] >>
    ELSE IF OK <= reply.status_code /\ reply.status_code < MULTIPLE_CHOICES
    THEN IF reply.is_json
         THEN << LogEntry("success", "info") >>
         ELSE << LogEntry("success", "info"), LogEntry("invalid_json", "error") >>
    ELSE << _log_error_response(reply) >>

_log_retry_request_next_attempt(attempt_number, sleep, exc) ==
    [LogEntry("Retrying Simplex request", "warning") EXCEPT
        !.attempt = attempt_number + 1, !.wait_seconds = sleep,
        !.error = StrOf(exc), !.error_type = exc.type]
\* _log_retry_request, the before_sleep hook of simplex_retry
_log_retry_request(attempt_number, sleep, exc) ==
    [LogEntry("Retrying Simplex request", "warning") EXCEPT
        !.attempt = attempt_number, !.wait_seconds = sleep,
        !.error = StrOf(exc), !.error_type = exc.type]

\* _log_retry, the before_sleep hook of openai_retry
_log_retry(attempt_number, sleep, exc) ==
    [LogEntry("Retrying OpenAI call", "warning") EXCEPT
        !.attempt = attempt_number, !.wait_seconds = sleep,
        !.error = StrOf(exc), !.error_type = exc.type]

\* the entries one execution of chat_completion writes
chat_completion_log(reply) ==
    IF reply.exc.type # "None"
    THEN << LogEntry("Starting structured generation", "info"),
            [LogEntry(IF openai_retry_predicate(reply.exc)
                      THEN "Chat completion attempt failed"
                      ELSE "Chat completion failed", "error")
                EXCEPT !.error = StrOf(reply.exc)] >>
    ELSE << LogEntry("Starting structured generation", "info"),
            IF reply.has_usage
            THEN LogEntry("Chat completion completed", "info")
            ELSE LogEntry("No usage data in response; skipping cost calculation", "warning") >>

\* ---------------------------------------------------------------------------
\* Inputs
\* ---------------------------------------------------------------------------

\* httpx exceptions caught as (TimeoutException, TransportError)
TransportErrors == {"ReadTimeout", "ConnectError"}

\* status codes the upstream answers with in the request model
StatusCodes == {100, 200, 204, 301, 400, 401, 404, 429, 500, 503}

MkItem(v, note) ==
    [f \in ItemFields |-> IF f \in ItemOptionalFields THEN note ELSE JStr(v)]

ErrorDoc == Payload("dict", JMissing, JMissing, "missing", <<>>)

\* bodies of 2xx answers: well-formed ones and structural deviations
Payloads ==
    { Payload("dict", JBool(TRUE), JStr("Patient reports headache"), "list", <<>>),
      Payload("dict", JBool(FALSE), JStr(""), "list",
              << MkItem("B", JStr("walk-in")), MkItem("A", JNull) >>),
      Payload("dict", JStr("yes"), JStr("No records"), "missing", <<>>),
      Payload("dict", JBool(TRUE), JMissing, "list", <<>>),
      Payload("dict", JBool(TRUE), JStr("Patient reports headache"), "list",
              << [MkItem("A", JMissing) EXCEPT !["Past_MH"] = JMissing] >>),
      Payload("list", JMissing, JMissing, "missing", <<>>),
      Payload("dict", JMissing, JStr("No records"), "list", <<>>),
      Payload("dict", JInt(1), JStr("No records"), "list", << MkItem("A", JMissing) >>),
      Payload("dict", JInt(2), JStr("No records"), "list", <<>>),
      Payload("dict", JBool(TRUE), JInt(5), "list", <<>>),
      Payload("dict", JBool(TRUE), JStr("No records"), "null", <<>>),
      Payload("dict", JBool(TRUE), JStr("No records"), "list",
              << [MkItem("A", JNull) EXCEPT !["Permanent_MRN_No"] = JInt(7)] >>) }

\* what the hospital API can answer to one HTTP call
SimplexReplies ==
    { Reply(t, 0, FALSE, ErrorDoc) : t \in TransportErrors }
    \cup { Reply("ok", c, TRUE, p) : c \in {200, 204}, p \in Payloads }
    \cup { Reply("ok", c, j, ErrorDoc) : c \in StatusCodes, j \in BOOLEAN }

MkInfo(v, note) ==
    [f \in InfoFields |-> IF f \in InfoOptionalFields THEN note ELSE JStr(v)]
MkRecord(v, opt, appointment_t, info) ==
    AppointmentRecord([f \in RecordFields |-> IF f \in RecordOptionalFields THEN opt ELSE JStr(v)],
                      appointment_t, info)

AppointmentsErrorDoc == AppointmentsPayload("dict", JMissing, JMissing, JMissing, "missing", <<>>)

\* bodies of 2xx answers to /appointments-by-date: well-formed ones and
\* structural deviations
AppointmentsPayloads ==
    { AppointmentsPayload("dict", JInt(0), JStr("ok"), JInt(0), "list", <<>>),
      AppointmentsPayload("dict", JInt(2), JStr("partial"), JInt(1), "list",
              << MkRecord("A", JNull, "dict", MkInfo("A", JMissing)) >>),
      AppointmentsPayload("dict", JStr("3"), JStr("ok"), JInt(0), "missing", <<>>),
      AppointmentsPayload("dict", JStr("many"), JStr("ok"), JInt(0), "list", <<>>),
      AppointmentsPayload("dict", JMissing, JStr("ok"), JInt(0), "list", <<>>),
      AppointmentsPayload("dict", JInt(0), JNull, JInt(0), "list", <<>>),
      AppointmentsPayload("dict", JInt(0), JStr("ok"), JNull, "list", <<>>),
      AppointmentsPayload("list", JMissing, JMissing, JMissing, "missing", <<>>),
      AppointmentsPayload("dict", JInt(0), JStr("ok"), JInt(1), "dict", <<>>),
      AppointmentsPayload("dict", JInt(0), JStr("ok"), JInt(1), "list",
              << MkRecord("A", JStr("x"), "missing", MkInfo("A", JMissing)) >>),
      AppointmentsPayload("dict", JInt(0), JStr("ok"), JInt(1), "list",
              << MkRecord("A", JStr("x"), "dict",
                          [MkInfo("A", JNull) EXCEPT !["doctor_name"] = JMissing]) >>) }

\* what the hospital API can answer to one call of /appointments-by-date
AppointmentsReplies ==
    { Reply(t, 0, FALSE, AppointmentsErrorDoc) : t \in TransportErrors }
    \cup { Reply("ok", 200, TRUE, p) : p \in AppointmentsPayloads }
    \cup { Reply("ok", c, j, AppointmentsErrorDoc) : c \in StatusCodes, j \in BOOLEAN }

\* what client.chat.completions.create can raise
LLMExceptions ==
    { Exc("RateLimitError", "Error code: 429", 0),
      Exc("BadRequestError", "Error code: 400", 0),
      Exc("APIConnectionError", "Connection error.", 0),
      Exc("APITimeoutError", "Request timed out.", 0),
      Exc("TimeoutError", "timed out", 0),
      Exc("ValueError", "unexpected keyword argument", 0) }

\* the choices of the completions it can return
LLMChoices ==
    { <<>>, << JNull >>, << JStr("") >>, << JStr("Patient_001 reports headache") >>,
      << JStr("Patient_001 reports headache"), JStr("second choice") >>,
      << JNull, JStr("second choice") >> }

LLMReplies ==
    { LLMReply(e, <<>>, FALSE) : e \in LLMExceptions }
    \cup { LLMReply(NoExc, c, u) : c \in LLMChoices, u \in BOOLEAN }

\* bodies of POST /anonymize
RequestData == {"some note", ""}

\* ---------------------------------------------------------------------------
\* State
\* ---------------------------------------------------------------------------

VARIABLES
    pc,                 \* where the request in flight is suspended
    request,            \* the inbound request
    attempt_number,     \* retry_state.attempt_number of the _request call
    http_calls,         \* calls of self._client.request made for this request
    outcomes,           \* the outcome of every attempt of _request, in order
    replies,            \* what the hospital API answered to every attempt, in order
    sleeps,             \* the backoff waits slept so far, in order
    fetch,              \* what get_patient_visit_history delivered to the handler
    llm_attempt_number, \* attempt number of the chat_completion call
    llm_calls,          \* calls of client.chat.completions.create for this request
    llm_outcomes,       \* the outcome of every execution of chat_completion
    llm_replies,        \* what client.chat.completions.create answered, in order
    llm_result,         \* what llm.anonymize delivered to the handler
    response,           \* the HTTP response of the handler
    log,                \* the log entries written for this request
    probe,              \* input and result of a function evaluated on its own
    lifecycle,          \* the application's phase and its two pooled clients
    calls,              \* concurrent calls of the retried _request
    retry_states        \* the RetryCallState objects of the concurrent calls

simplexVars == <<attempt_number, http_calls, outcomes, replies, sleeps, fetch>>
llmVars == <<llm_attempt_number, llm_calls, llm_outcomes, llm_replies, llm_result>>
concVars == <<calls, retry_states>>
vars == <<pc, request, attempt_number, http_calls, outcomes, replies, sleeps, fetch,
          llm_attempt_number, llm_calls, llm_outcomes, llm_replies, llm_result, response, log,
          probe, lifecycle, calls, retry_states>>

NoRequest == [endpoint |-> "none", data |-> ""]
NoOutcome == [tag |-> "none", value |-> JNull, exc |-> NoExc]
NoFetch == [tag |-> "none", resp |-> NoHistory, exc |-> NoExc]
NoResponse ==
    [status_code |-> 0, detail |-> <<"", 0>>, anonymized |-> JNull, history |-> NoHistory]
\* the container after import: the application runs, the Singleton services
\* and their pooled clients are built when first resolved
Constructed == [phase |-> "running", AsyncOpenAI |-> "unbuilt", SimplexService |-> "unbuilt"]

\* container[cls] of a Singleton: built on first resolution, then reused
resolve(lc, cls) ==
    IF cls = "LLMService"
    THEN [lc EXCEPT !.AsyncOpenAI = IF @ = "unbuilt" THEN "open" ELSE @]
    ELSE [lc EXCEPT !.SimplexService = IF @ = "unbuilt" THEN "open" ELSE @]

\* one concurrent call of _request: where it is suspended, the HTTP calls it
\* made, the outcome of each of its attempts and the waits it slept
NoCall == [pc |-> "idle", http_calls |-> 0, outs |-> <<>>, sleeps |-> <<>>]
NoCalls == [c \in 1..NumCalls |-> NoCall]
NoRetryStates == [c \in 1..NumCalls |-> 0]

NoProbe ==
    [fn |-> "none", reply |-> Reply("ok", 0, FALSE, ErrorDoc), attempt_number |-> 0,
     out |-> NoOutcome, seconds |-> 0, done |-> FALSE]

Init ==
    /\ pc = "idle"
    /\ request = NoRequest
    /\ attempt_number = 0
    /\ http_calls = 0
    /\ outcomes = <<>>
    /\ replies = <<>>
    /\ sleeps = <<>>
    /\ fetch = NoFetch
    /\ llm_attempt_number = 0
    /\ llm_calls = 0
    /\ llm_outcomes = <<>>
    /\ llm_replies = <<>>
    /\ llm_result = NoOutcome
    /\ response = NoResponse
    /\ log = <<>>
    /\ probe = NoProbe
    /\ lifecycle = Constructed
    /\ calls = NoCalls
    /\ retry_states = NoRetryStates

\* ---------------------------------------------------------------------------
\* Handlers of app.main
\* ---------------------------------------------------------------------------

\* raise HTTPException(status_code, detail)
HTTPException(status_code, detail) ==
    [status_code |-> status_code, detail |-> detail, anonymized |-> JNull, history |-> NoHistory]

anonymize_answer_generic_detail(result) ==
    IF result.tag = "raise"
    THEN HTTPException(HTTP_500_INTERNAL_SERVER_ERROR, <<"Internal Server Error", 0>>)
    ELSE IF result.value.t = "null"
    THEN HTTPException(HTTP_500_INTERNAL_SERVER_ERROR, <<"No anonymized data returned", 0>>)
    ELSE [status_code |-> HTTP_200_OK, detail |-> <<"", 0>>,
          anonymized |-> result.value, history |-> NoHistory]
\* anonymize (POST /anonymize) once llm.anonymize has delivered `result`
anonymize_answer(result) ==
    IF result.tag = "raise"
    THEN HTTPException(HTTP_500_INTERNAL_SERVER_ERROR, StrOf(result.exc))
    ELSE IF result.value.t = "null"
    THEN HTTPException(HTTP_500_INTERNAL_SERVER_ERROR, <<"No anonymized data returned", 0>>)
    ELSE [status_code |-> HTTP_200_OK, detail |-> <<"", 0>>,
          anonymized |-> result.value, history |-> NoHistory]

anonymize_answer_log(result) ==
    IF result.tag = "raise"
    THEN << [LogEntry("Anonymization failed", "error") EXCEPT !.error = StrOf(result.exc)] >>
    ELSE IF result.value.t = "null"
    THEN << LogEntry("No anonymized data returned", "error") >>
    ELSE << LogEntry("Anonymized data", "info"), LogEntry("Anonymization completed", "info") >>

patient_visit_histories_answer_502_on_llm_failure(resp, result) ==
    IF result.tag = "raise"
    THEN HTTPException(HTTP_502_BAD_GATEWAY, <<"Failed to fetch patient visit history", 0>>)
    ELSE [status_code |-> HTTP_200_OK, detail |-> <<"", 0>>, anonymized |-> JNull,
          history |-> model_copy_message(resp,
                        IF result.value.t = "null" THEN resp.message ELSE result.value.s)]
\* patient_visit_histories after a successful fetch, once llm.anonymize has
\* delivered `result`
patient_visit_histories_answer(resp, result) ==
    [status_code |-> HTTP_200_OK, detail |-> <<"", 0>>, anonymized |-> JNull,
     history |-> model_copy_message(resp,
                    IF result.tag = "raise" \/ result.value.t = "null"
                    THEN resp.message ELSE result.value.s)]

patient_visit_histories_answer_log(result) ==
    IF result.tag = "raise"
    THEN << [LogEntry("Message anonymization failed", "error") EXCEPT !.error = StrOf(result.exc)] >>
    ELSE <<>>

patient_visit_histories_failure_500(exc) ==
    HTTPException(HTTP_500_INTERNAL_SERVER_ERROR, <<"Failed to fetch patient visit history", 0>>)
\* patient_visit_histories when get_patient_visit_history raised `exc`
patient_visit_histories_failure(exc) ==
    HTTPException(HTTP_502_BAD_GATEWAY, <<"Failed to fetch patient visit history", 0>>)

patient_visit_histories_failure_log(exc) ==
    << [LogEntry("Simplex patient visit history fetch failed", "error") EXCEPT !.error = StrOf(exc)] >>

\* POST /anonymize arrives: the handler calls llm.anonymize(request.data)
StartAnonymize ==
    /\ pc = "idle"
    /\ lifecycle.phase = "running"
    /\ lifecycle' = resolve(lifecycle, "LLMService")
    /\ \E d \in RequestData : request' = [endpoint |-> "anonymize", data |-> d]
    /\ pc' = "llm_call"
    /\ llm_attempt_number' = 1
    /\ UNCHANGED <<simplexVars, llm_calls, llm_outcomes, llm_replies, llm_result, response, log, probe, concVars>>

\* GET /ehr/patient-visit-histories arrives: the handler calls
\* get_patient_visit_history, which starts the first attempt of _request
StartPatientVisitHistories ==
    /\ pc = "idle"
    /\ lifecycle.phase = "running"
    /\ lifecycle' = resolve(resolve(lifecycle, "SimplexService"), "LLMService")
    /\ request' = [endpoint |-> "patient-visit-histories", data |-> ""]
    /\ pc' = "simplex_call"
    /\ attempt_number' = 1
    /\ log' = Append(log, LogEntry("Fetching patient visit history from Simplex v2", "info"))
    /\ UNCHANGED <<http_calls, outcomes, replies, sleeps, fetch, llmVars, response, probe, concVars>>

\* ---------------------------------------------------------------------------
\* The retried hospital-API request and get_patient_visit_history
\* ---------------------------------------------------------------------------

\* one backoff sleep: the policy that slept, the attempt it follows, its length
Sleep(by, attempt, seconds) == [by |-> by, attempt |-> attempt, seconds |-> seconds]

retry_raises_first(outs) == outs[1].exc
\* reraise=True: when the policy stops, the exception of the last attempt is
\* raised as it is
retry_reraise(outs) == outs[Len(outs)].exc

\* an attempt of _request fails with a retryable failure before the last
\* attempt: before_sleep logs, then the policy sleeps
SimplexAttemptRetries ==
    /\ pc = "simplex_call"
    /\ \E reply \in SimplexReplies :
        LET out == _request(reply) IN
        /\ out.tag = "raise"
        /\ simplex_retry_predicate(out.exc)
        /\ ~simplex_stop(attempt_number)
        /\ http_calls' = http_calls + 1
        /\ outcomes' = Append(outcomes, out)
        /\ replies' = Append(replies, reply)
        /\ log' = log \o _request_log(reply)
                      \o << _log_retry_request(attempt_number, simplex_wait(attempt_number), out.exc) >>
    /\ pc' = "simplex_sleep"
    /\ UNCHANGED <<request, attempt_number, sleeps, fetch, llmVars, response, probe, lifecycle, concVars>>

\* the backoff sleep ends and the next attempt starts
SimplexSleepDone ==
    /\ pc = "simplex_sleep"
    /\ sleeps' = Append(sleeps, Sleep("simplex_retry", attempt_number, simplex_wait(attempt_number)))
    /\ attempt_number' = attempt_number + 1
    /\ pc' = "simplex_call"
    /\ UNCHANGED <<request, http_calls, outcomes, replies, fetch, llmVars, response, log, probe, lifecycle, concVars>>

\* an attempt of _request fails and the policy stops (failure not retryable,
\* or last attempt): the failure reaches the handler, which answers 502
SimplexAttemptFails ==
    /\ pc = "simplex_call"
    /\ request.endpoint = "patient-visit-histories"
    /\ \E reply \in SimplexReplies :
        LET out == _request(reply)
            outs == Append(outcomes, out)
            exc == retry_reraise(outs) IN
        /\ out.tag = "raise"
        /\ ~simplex_retry_predicate(out.exc) \/ simplex_stop(attempt_number)
        /\ http_calls' = http_calls + 1
        /\ outcomes' = outs
        /\ replies' = Append(replies, reply)
        /\ fetch' = [tag |-> "raise", resp |-> NoHistory, exc |-> exc]
        /\ response' = patient_visit_histories_failure(exc)
        /\ log' = log \o _request_log(reply) \o patient_visit_histories_failure_log(exc)
    /\ pc' = "done"
    /\ UNCHANGED <<request, attempt_number, sleeps, llmVars, probe, lifecycle, concVars>>

\* an attempt of _request returns a payload that does not validate:
\* get_patient_visit_history raises and the handler answers 502
SimplexAttemptReturnsInvalid ==
    /\ pc = "simplex_call"
    /\ request.endpoint = "patient-visit-histories"
    /\ \E reply \in SimplexReplies :
        LET out == _request(reply) IN
        /\ out.tag = "return"
        /\ ~model_validate_ok(out.value)
        /\ http_calls' = http_calls + 1
        /\ outcomes' = Append(outcomes, out)
        /\ replies' = Append(replies, reply)
        /\ fetch' = [tag |-> "raise", resp |-> NoHistory, exc |-> ValidationError]
        /\ response' = patient_visit_histories_failure(ValidationError)
        /\ log' = log \o _request_log(reply) \o patient_visit_histories_failure_log(ValidationError)
    /\ pc' = "done"
    /\ UNCHANGED <<request, attempt_number, sleeps, llmVars, probe, lifecycle, concVars>>

\* an attempt of _request returns a payload that validates: the handler goes
\* on to llm.anonymize(resp.message)
SimplexAttemptReturnsValid ==
    /\ pc = "simplex_call"
    /\ request.endpoint = "patient-visit-histories"
    /\ \E reply \in SimplexReplies :
        LET out == _request(reply) IN
        /\ out.tag = "return"
        /\ model_validate_ok(out.value)
        /\ http_calls' = http_calls + 1
        /\ outcomes' = Append(outcomes, out)
        /\ replies' = Append(replies, reply)
        /\ fetch' = [tag |-> "return", resp |-> model_validate(out.value), exc |-> NoExc]
        /\ log' = log \o _request_log(reply)
    /\ pc' = "llm_call"
    /\ llm_attempt_number' = 1
    /\ UNCHANGED <<request, attempt_number, sleeps, llm_calls, llm_outcomes, llm_replies, llm_result, response, probe, lifecycle, concVars>>

\* ---------------------------------------------------------------------------
\* appointments_by_date, called on the service by its caller
\* ---------------------------------------------------------------------------

\* a caller awaits simplex.appointments_by_date(date=...), which starts the
\* first attempt of _request
StartAppointmentsByDate ==
    /\ pc = "idle"
    /\ lifecycle.phase = "running"
    /\ lifecycle' = resolve(lifecycle, "SimplexService")
    /\ request' = [endpoint |-> "appointments-by-date", data |-> ""]
    /\ pc' = "simplex_call"
    /\ attempt_number' = 1
    /\ log' = Append(log, LogEntry("Fetching appointments from Simplex", "info"))
    /\ UNCHANGED <<http_calls, outcomes, replies, sleeps, fetch, llmVars, response, probe, concVars>>

\* an attempt of _request fails and the policy stops: appointments_by_date
\* lets the failure through to its caller
AppointmentsByDateFails ==
    /\ pc = "simplex_call"
    /\ request.endpoint = "appointments-by-date"
    /\ \E reply \in AppointmentsReplies :
        LET out == _request(reply)
            outs == Append(outcomes, out) IN
        /\ out.tag = "raise"
        /\ ~simplex_retry_predicate(out.exc) \/ simplex_stop(attempt_number)
        /\ http_calls' = http_calls + 1
        /\ outcomes' = outs
        /\ replies' = Append(replies, reply)
        /\ fetch' = [tag |-> "raise", resp |-> NoHistory, exc |-> retry_reraise(outs)]
        /\ log' = log \o _request_log(reply)
    /\ pc' = "done"
    /\ UNCHANGED <<request, attempt_number, sleeps, llmVars, response, probe, lifecycle, concVars>>

\* an attempt of _request returns a payload that does not validate:
\* appointments_by_date raises the validation error to its caller
AppointmentsByDateReturnsInvalid ==
    /\ pc = "simplex_call"
    /\ request.endpoint = "appointments-by-date"
    /\ \E reply \in AppointmentsReplies :
        LET out == _request(reply) IN
        /\ out.tag = "return"
        /\ ~appointments_validate_ok(out.value)
        /\ http_calls' = http_calls + 1
        /\ outcomes' = Append(outcomes, out)
        /\ replies' = Append(replies, reply)
        /\ fetch' = [tag |-> "raise", resp |-> NoHistory, exc |-> AppointmentsValidationError]
        /\ log' = log \o _request_log(reply)
    /\ pc' = "done"
    /\ UNCHANGED <<request, attempt_number, sleeps, llmVars, response, probe, lifecycle, concVars>>

\* an attempt of _request returns a payload that validates:
\* appointments_by_date logs and returns the instance
AppointmentsByDateReturnsValid ==
    /\ pc = "simplex_call"
    /\ request.endpoint = "appointments-by-date"
    /\ \E reply \in AppointmentsReplies :
        LET out == _request(reply)
            result == appointments_validate(out.value) IN
        /\ out.tag = "return"
        /\ appointments_validate_ok(out.value)
        /\ http_calls' = http_calls + 1
        /\ outcomes' = Append(outcomes, out)
        /\ replies' = Append(replies, reply)
        /\ fetch' = [tag |-> "return", resp |-> result, exc |-> NoExc]
        /\ log' = log \o _request_log(reply) \o appointments_by_date_log(result)
    /\ pc' = "done"
    /\ UNCHANGED <<request, attempt_number, sleeps, llmVars, response, probe, lifecycle, concVars>>

\* ---------------------------------------------------------------------------
\* llm.anonymize and the end of both handlers
\* ---------------------------------------------------------------------------

\* the text handed to llm.anonymize by the handler in flight
anonymize_input ==
    IF request.endpoint = "anonymize" THEN request.data ELSE fetch.resp.message

\* the call of client.chat.completions.create ends.  If the call is to be
\* repeated the attempt counter advances after the backoff sleep; otherwise
\* the outcome reaches the handler, which answers.
LLMCallEnds(endpoint) ==
    /\ pc = "llm_call"
    /\ request.endpoint = endpoint
    /\ \E reply \in LLMReplies :
        LET issued == chat_completion_calls(anonymize_input)
            out == IF issued = 0 THEN Returned(JNull) ELSE chat_completion(reply)
            again == out.tag = "raise" /\ chat_completion_retries(out.exc, llm_attempt_number)
            wait == openai_wait(llm_attempt_number) IN
        /\ llm_calls' = llm_calls + issued
        /\ llm_outcomes' = Append(llm_outcomes, out)
        /\ llm_replies' = Append(llm_replies, reply)
        /\ IF again
           THEN /\ llm_attempt_number' = llm_attempt_number + 1
                /\ sleeps' = Append(sleeps, Sleep("openai_retry", llm_attempt_number, wait))
                /\ log' = log \o chat_completion_log(reply)
                              \o << _log_retry(llm_attempt_number, wait, out.exc) >>
                /\ pc' = "llm_call"
                /\ UNCHANGED <<llm_result, response>>
           ELSE /\ llm_result' = out
                /\ response' = IF endpoint = "anonymize"
                               THEN anonymize_answer(out)
                               ELSE patient_visit_histories_answer(fetch.resp, out)
                /\ log' = log \o chat_completion_log(reply)
                              \o (IF endpoint = "anonymize"
                                  THEN anonymize_answer_log(out)
                                  ELSE patient_visit_histories_answer_log(out))
                /\ pc' = "done"
                /\ UNCHANGED <<llm_attempt_number, sleeps>>
    /\ UNCHANGED <<request, attempt_number, http_calls, outcomes, replies, fetch, probe, lifecycle, concVars>>

AnonymizeEnds == LLMCallEnds("anonymize")

PatientVisitHistoriesEnds == LLMCallEnds("patient-visit-histories")

\* the response has been sent; the server waits for the next request
NextRequest ==
    /\ pc = "done"
    /\ pc' = "idle"
    /\ request' = NoRequest
    /\ attempt_number' = 0
    /\ http_calls' = 0
    /\ outcomes' = <<>>
    /\ replies' = <<>>
    /\ sleeps' = <<>>
    /\ fetch' = NoFetch
    /\ llm_attempt_number' = 0
    /\ llm_calls' = 0
    /\ llm_outcomes' = <<>>
    /\ llm_replies' = <<>>
    /\ llm_result' = NoOutcome
    /\ response' = NoResponse
    /\ log' = <<>>
    /\ UNCHANGED <<probe, lifecycle, concVars>>

\* the clients the application closes when it shuts down: app is
\* FastAPI(title=...) with no lifespan and no shutdown handler, and nothing
\* calls SimplexService.aclose or closes the AsyncOpenAI client
shutdown_closes == {}

\* graceful shutdown, once no request is in flight
Shutdown ==
    /\ pc = "idle"
    /\ lifecycle.phase = "running"
    /\ lifecycle' =
        [phase |-> "stopped",
         AsyncOpenAI |-> IF "AsyncOpenAI" \in shutdown_closes /\ lifecycle.AsyncOpenAI = "open"
                         THEN "closed" ELSE lifecycle.AsyncOpenAI,
         SimplexService |-> IF "SimplexService" \in shutdown_closes /\ lifecycle.SimplexService = "open"
                            THEN "closed" ELSE lifecycle.SimplexService]
    /\ UNCHANGED <<pc, request, simplexVars, llmVars, response, log, probe, concVars>>

Next ==
    \/ StartAnonymize
    \/ StartPatientVisitHistories
    \/ SimplexAttemptRetries
    \/ SimplexSleepDone
    \/ SimplexAttemptFails
    \/ SimplexAttemptReturnsInvalid
    \/ SimplexAttemptReturnsValid
    \/ AnonymizeEnds
    \/ PatientVisitHistoriesEnds
    \/ NextRequest
    \/ Shutdown

Spec == Init /\ [][Next]_vars

\* an upstream call in flight ends: every HTTP call carries the configured
\* timeout, so it returns or fails
UpstreamAnswers ==
    \/ SimplexAttemptRetries
    \/ SimplexAttemptFails
    \/ SimplexAttemptReturnsInvalid
    \/ SimplexAttemptReturnsValid
    \/ AnonymizeEnds
    \/ PatientVisitHistoriesEnds

\* the event loop resumes a task whose upstream call has ended or whose
\* backoff sleep has elapsed
LiveSpec == Spec /\ WF_vars(UpstreamAnswers) /\ WF_vars(SimplexSleepDone)

\* ---------------------------------------------------------------------------
\* The two fetch operations of SimplexService: get_patient_visit_history as
\* the handler calls it, appointments_by_date as any caller would
\* ---------------------------------------------------------------------------

NextFetch ==
    \/ StartPatientVisitHistories
    \/ StartAppointmentsByDate
    \/ SimplexAttemptRetries
    \/ SimplexSleepDone
    \/ SimplexAttemptFails
    \/ SimplexAttemptReturnsInvalid
    \/ SimplexAttemptReturnsValid
    \/ AppointmentsByDateFails
    \/ AppointmentsByDateReturnsInvalid
    \/ AppointmentsByDateReturnsValid
    \/ PatientVisitHistoriesEnds
    \/ NextRequest

SpecFetch == Init /\ [][NextFetch]_vars

\* ---------------------------------------------------------------------------
\* The classification of _request on its own, over the whole status range
\* ---------------------------------------------------------------------------

ClassifyProbes ==
    { [NoProbe EXCEPT !.fn = "_request", !.reply = Reply(t, c, j, ErrorDoc)] :
        t \in {"ok"} \cup TransportErrors, c \in MinStatus..MaxStatus, j \in BOOLEAN }

InitClassify ==
    /\ pc = "idle" /\ request = NoRequest /\ attempt_number = 0 /\ http_calls = 0
    /\ outcomes = <<>> /\ replies = <<>> /\ sleeps = <<>> /\ fetch = NoFetch /\ llm_attempt_number = 0
    /\ llm_calls = 0 /\ llm_outcomes = <<>> /\ llm_replies = <<>> /\ llm_result = NoOutcome
    /\ response = NoResponse /\ log = <<>>
    /\ lifecycle = Constructed /\ calls = NoCalls /\ retry_states = NoRetryStates
    /\ probe \in ClassifyProbes

\* one attempt of _request classifies the reply
Classify ==
    /\ probe.fn = "_request"
    /\ ~probe.done
    /\ probe' = [probe EXCEPT !.out = _request(probe.reply), !.done = TRUE]
    /\ UNCHANGED <<pc, request, simplexVars, llmVars, response, log, lifecycle, concVars>>

NextClassify == Classify

SpecClassify == InitClassify /\ [][NextClassify]_vars

\* ---------------------------------------------------------------------------
\* The wait functions of the two retry policies on their own
\* ---------------------------------------------------------------------------

WaitProbes ==
    { [NoProbe EXCEPT !.fn = f, !.attempt_number = k] :
        f \in {"simplex_wait", "openai_wait"}, k \in 1..MaxAttemptNumber }

InitWait ==
    /\ pc = "idle" /\ request = NoRequest /\ attempt_number = 0 /\ http_calls = 0
    /\ outcomes = <<>> /\ replies = <<>> /\ sleeps = <<>> /\ fetch = NoFetch /\ llm_attempt_number = 0
    /\ llm_calls = 0 /\ llm_outcomes = <<>> /\ llm_replies = <<>> /\ llm_result = NoOutcome
    /\ response = NoResponse /\ log = <<>>
    /\ lifecycle = Constructed /\ calls = NoCalls /\ retry_states = NoRetryStates
    /\ probe \in WaitProbes

\* the policy computes the wait that follows attempt probe.attempt_number
ComputeWait ==
    /\ probe.fn \in {"simplex_wait", "openai_wait"}
    /\ ~probe.done
    /\ probe' = [probe EXCEPT
                    !.seconds = IF probe.fn = "simplex_wait"
                                THEN simplex_wait(probe.attempt_number)
                                ELSE openai_wait(probe.attempt_number),
                    !.done = TRUE]
    /\ UNCHANGED <<pc, request, simplexVars, llmVars, response, log, lifecycle, concVars>>

NextWait == ComputeWait

SpecWait == InitWait /\ [][NextWait]_vars

\* ---------------------------------------------------------------------------
\* Concurrent calls of the retried _request on the one SimplexService
\* ---------------------------------------------------------------------------

\* what the hospital API answers to the concurrent calls
ConcReplies ==
    { Reply("ReadTimeout", 0, FALSE, ErrorDoc), Reply("ok", 503, FALSE, ErrorDoc),
      Reply("ok", 404, FALSE, ErrorDoc),
      Reply("ok", 200, TRUE, Payload("dict", JBool(TRUE), JStr("Patient reports headache"), "list", <<>>)) }

retry_state_shared(c) == 1
\* the RetryCallState a call of the decorated _request works on: the wrapper
\* of simplex_retry builds a new one for every call
retry_state_of(c) == c

InitConc ==
    /\ pc = "idle" /\ request = NoRequest /\ attempt_number = 0 /\ http_calls = 0
    /\ outcomes = <<>> /\ replies = <<>> /\ sleeps = <<>> /\ fetch = NoFetch /\ llm_attempt_number = 0
    /\ llm_calls = 0 /\ llm_outcomes = <<>> /\ llm_replies = <<>> /\ llm_result = NoOutcome
    /\ response = NoResponse /\ log = <<>> /\ probe = NoProbe
    /\ lifecycle = [Constructed EXCEPT !.SimplexService = "open"]
    /\ calls = NoCalls /\ retry_states = NoRetryStates

mainVars == <<pc, request, simplexVars, llmVars, response, log, probe, lifecycle>>

\* a task calls _request: the wrapper creates its RetryCallState and starts
\* the first attempt
ConcStart(c) ==
    /\ calls[c].pc = "idle"
    /\ calls' = [calls EXCEPT ![c].pc = "call"]
    /\ retry_states' = [retry_states EXCEPT ![retry_state_of(c)] = 1]
    /\ UNCHANGED mainVars

\* an attempt fails with a retryable failure and the policy does not stop
ConcAttemptRetries(c) ==
    /\ calls[c].pc = "call"
    /\ \E reply \in ConcReplies :
        LET out == _request(reply) IN
        /\ out.tag = "raise"
        /\ simplex_retry_predicate(out.exc)
        /\ ~simplex_stop(retry_states[retry_state_of(c)])
        /\ calls' = [calls EXCEPT ![c].pc = "sleep",
                                  ![c].http_calls = @ + 1,
                                  ![c].outs = Append(@, out)]
    /\ UNCHANGED <<mainVars, retry_states>>

\* the backoff sleep of the call ends; its attempt number advances
ConcSleepDone(c) ==
    /\ calls[c].pc = "sleep"
    /\ calls' = [calls EXCEPT ![c].pc = "call",
                              ![c].sleeps = Append(@, simplex_wait(retry_states[retry_state_of(c)]))]
    /\ retry_states' = [retry_states EXCEPT ![retry_state_of(c)] = @ + 1]
    /\ UNCHANGED mainVars

\* an attempt returns, or fails and the policy stops
ConcAttemptEnds(c) ==
    /\ calls[c].pc = "call"
    /\ \E reply \in ConcReplies :
        LET out == _request(reply) IN
        /\ \/ out.tag = "return"
           \/ ~simplex_retry_predicate(out.exc)
           \/ simplex_stop(retry_states[retry_state_of(c)])
        /\ calls' = [calls EXCEPT ![c].pc = IF out.tag = "return" THEN "returned" ELSE "raised",
                                  ![c].http_calls = @ + 1,
                                  ![c].outs = Append(@, out)]
    /\ UNCHANGED <<mainVars, retry_states>>

NextConc ==
    \E c \in 1..NumCalls :
        \/ ConcStart(c)
        \/ ConcAttemptRetries(c)
        \/ ConcSleepDone(c)
        \/ ConcAttemptEnds(c)

SpecConc == InitConc /\ [][NextConc]_vars

\* ---------------------------------------------------------------------------
\* Properties
\* ---------------------------------------------------------------------------

\* the failure kinds the specification calls retryable
RetryableKinds == {"SimplexNetworkError", "SimplexServerError", "SimplexRateLimitError"}

AttemptFailedWith(i, kinds) ==
    outcomes[i].tag = "raise" /\ outcomes[i].exc.type \in kinds

\* C1: when every attempt of _request fails with a Network, ServerError or
\* RateLimited failure the HTTP call is issued 3 times before the failure
\* reaches the caller; when the first attempt fails with any other kind it is
\* issued once; an attempt is followed by another one only if it failed with
\* a retryable kind.
C1_RetryBudget ==
    LET n == Len(outcomes) IN
    /\ http_calls = n
    /\ (fetch.tag = "raise" /\ \A i \in 1..n : AttemptFailedWith(i, RetryableKinds))
          => http_calls = 3
    /\ (n >= 1 /\ outcomes[1].tag = "raise" /\ outcomes[1].exc.type \notin RetryableKinds)
          => (http_calls = 1 /\ fetch.tag = "raise" /\ pc = "done")
    /\ \A i \in 1..n : i < n => AttemptFailedWith(i, RetryableKinds)
    /\ \A i \in 1..n : (AttemptFailedWith(i, RetryableKinds) /\ i < 3 /\ pc = "done") => i < n

C1_Witness ==
    /\ pc = "done" /\ fetch.tag = "raise" /\ http_calls = 3
    /\ AttemptFailedWith(1, {"SimplexNetworkError"})
    /\ AttemptFailedWith(2, {"SimplexRateLimitError"})
    /\ AttemptFailedWith(3, {"SimplexServerError"})

\* C2: the classification of one HTTP call is total and exact: transport
\* exception -> Network; 2xx with decodable body -> the decoded value; 2xx
\* with undecodable body -> ClientError; 401 -> Auth; 404 -> NotFound;
\* 429 -> RateLimited; other 4xx -> ClientError; >= 500 -> ServerError;
\* any remaining status -> ClientError.
C2_Classification ==
    probe.done =>
        LET r == probe.reply
            c == r.status_code
            o == probe.out
            fails(kind) == o.tag = "raise" /\ o.exc.type = kind IN
        IF r.transport # "ok" THEN fails("SimplexNetworkError")
        ELSE /\ (c >= 200 /\ c < 300 /\ r.is_json) => (o.tag = "return" /\ o.value = r.payload)
             /\ (c >= 200 /\ c < 300 /\ ~r.is_json) => fails("SimplexClientError")
             /\ c = 401 => fails("SimplexAuthError")
             /\ c = 404 => fails("SimplexNotFoundError")
             /\ c = 429 => fails("SimplexRateLimitError")
             /\ (c >= 400 /\ c < 500 /\ c \notin {401, 404, 429}) => fails("SimplexClientError")
             /\ c >= 500 => fails("SimplexServerError")
             /\ (c < 200 \/ (c >= 300 /\ c < 400)) => fails("SimplexClientError")

C2_Witness ==
    /\ probe.done /\ probe.reply.transport = "ok" /\ probe.reply.status_code = 600
    /\ probe.out.tag = "raise" /\ probe.out.exc.type = "SimplexServerError"

\* C3: when the model-API call fails with a retryable failure on every
\* attempt, llm.anonymize issues the upstream call 3 times before the failure
\* reaches the handler.
C3_LLMRetriesThreeTimes ==
    (/\ llm_result.tag = "raise"
     /\ \A i \in 1..Len(llm_outcomes) :
            llm_outcomes[i].tag = "raise" /\ openai_retry_predicate(llm_outcomes[i].exc))
        => llm_calls = 3

\* C4 as stated: the wait before attempt 2 is 4 seconds and the wait before
\* attempt 3 is 8 seconds.
C4_WaitsFourAndEight ==
    \A i \in 1..Len(sleeps) :
        /\ sleeps[i].attempt = 1 => sleeps[i].seconds = 4
        /\ sleeps[i].attempt = 2 => sleeps[i].seconds = 8

\* C4 amended: the wait slept before attempt 2 is 2 seconds and the wait
\* slept before attempt 3 is 4 seconds, and these are the waits both
\* policies compute after attempts 1 and 2.
C4_WaitsTwoAndFour ==
    /\ \A i \in 1..Len(sleeps) :
        /\ sleeps[i].attempt \in {1, 2}
        /\ sleeps[i].attempt = 1 => sleeps[i].seconds = 2
        /\ sleeps[i].attempt = 2 => sleeps[i].seconds = 4
    /\ Len(sleeps) <= 2
    /\ \A i \in 1..Len(sleeps) : sleeps[i].attempt = i
    /\ openai_wait(1) = 2 /\ openai_wait(2) = 4

C4_Witness ==
    /\ pc = "simplex_call" /\ attempt_number = 3 /\ Len(sleeps) = 2
    /\ sleeps[1].seconds = 2 /\ sleeps[2].seconds = 4

\* C5: for every attempt number k >= 1 the wait between attempt k and
\* attempt k+1 is min(2 * 2^(k-1), 120) seconds, hence at most 120.
C5_BackoffFormula ==
    probe.done =>
        LET k == probe.attempt_number IN
        /\ probe.seconds = (IF 2 * 2^(k - 1) <= 120 THEN 2 * 2^(k - 1) ELSE 120)
        /\ probe.seconds <= 120

C5_Witness ==
    probe.done /\ probe.fn = "simplex_wait" /\ probe.attempt_number = 7 /\ probe.seconds = 120

\* C6: in GET /ehr/patient-visit-histories, once the fetch has succeeded the
\* handler answers 200 whatever llm.anonymize does; when it raises or returns
\* none the response message is the fetched message; never 502.
C6_AnonymizationFallback ==
    (pc = "done" /\ fetch.tag = "return") =>
        LET last == llm_outcomes[Len(llm_outcomes)] IN
        /\ response.status_code = 200
        /\ response.history.present
        /\ (last.tag = "raise" \/ last.value.t = "null")
              => response.history.message = fetch.resp.message

C6_Witness ==
    /\ pc = "done" /\ fetch.tag = "return" /\ llm_result.tag = "raise"
    /\ fetch.resp.message = "Patient reports headache"
    /\ response.status_code = 200
    /\ response.history.message = "Patient reports headache"

\* C7: in GET /ehr/patient-visit-histories, a failed fetch yields 502 and
\* llm.anonymize is never called; an upstream 404 is not retried, and when it
\* answers the first attempt the hospital API has been called exactly once.
C7_FetchFailure ==
    /\ fetch.tag = "raise" =>
          (pc = "done" /\ response.status_code = 502 /\ llm_calls = 0 /\ Len(llm_outcomes) = 0)
    /\ \A i \in 1..Len(outcomes) :
          AttemptFailedWith(i, {"SimplexNotFoundError"}) =>
              /\ i = Len(outcomes) /\ http_calls = i
              /\ fetch.tag = "raise" /\ fetch.exc.type = "SimplexNotFoundError"
              /\ response.status_code = 502

C7_Witness ==
    /\ pc = "done" /\ http_calls = 1 /\ AttemptFailedWith(1, {"SimplexNotFoundError"})
    /\ response.status_code = 502 /\ llm_calls = 0

\* C8: POST /anonymize answers 500 with the failure's description as detail
\* when llm.anonymize raises, 500 when it returns none, and 200 only when it
\* returns text, which is then the `anonymized` field.
C8_AnonymizeStatus ==
    (pc = "done" /\ request.endpoint = "anonymize") =>
        LET last == llm_outcomes[Len(llm_outcomes)] IN
        /\ last.tag = "raise" =>
              (response.status_code = 500 /\ response.detail = <<last.exc.msg, last.exc.code>>)
        /\ (last.tag = "return" /\ last.value.t = "null") => response.status_code = 500
        /\ (last.tag = "return" /\ last.value.t = "str") =>
              (response.status_code = 200 /\ response.anonymized = last.value)
        /\ response.status_code \in {200, 500}

C8_Witness ==
    /\ pc = "done" /\ request.endpoint = "anonymize" /\ request.data = "some note"
    /\ llm_result.tag = "raise" /\ llm_result.exc.type = "APITimeoutError"
    /\ response.status_code = 500 /\ response.detail = <<"Request timed out.", 0>>

\* C9: when a retried operation stops retrying, the failure delivered to the
\* caller is the failure raised by the last executed attempt, same kind and
\* message, on exhaustion as well as after a non-retryable failure.
C9_LastFailureUnchanged ==
    /\ (fetch.tag = "raise" /\ outcomes[Len(outcomes)].tag = "raise")
          => fetch.exc = outcomes[Len(outcomes)].exc
    /\ llm_result.tag = "raise" => llm_result.exc = llm_outcomes[Len(llm_outcomes)].exc

C9_Witness ==
    /\ fetch.tag = "raise" /\ Len(outcomes) = 3
    /\ outcomes[1].exc.type = "SimplexServerError" /\ outcomes[1].exc.code = 500
    /\ outcomes[3].exc.type = "SimplexServerError" /\ outcomes[3].exc.code = 503
    /\ fetch.exc.code = 503

\* C10: when the model-API call fails with a failure that is not retryable
\* (a malformed-request error of the vendor for one), llm.anonymize issues
\* exactly one upstream call and delivers that failure unchanged.
C10_NoRetryOfNonRetryable ==
    (/\ Len(llm_outcomes) >= 1
     /\ llm_outcomes[1].tag = "raise"
     /\ llm_outcomes[1].exc.type \in {"BadRequestError", "ValueError", "IndexError"})
        => /\ llm_calls = 1
           /\ pc = "done"
           /\ llm_result = llm_outcomes[1]

C10_Witness ==
    /\ pc = "done" /\ llm_calls = 1
    /\ llm_result.tag = "raise" /\ llm_result.exc.type = "BadRequestError"

\* the payload the last attempt of _request returned
LastPayload == outcomes[Len(outcomes)].value
LastReturned == Len(outcomes) >= 1 /\ outcomes[Len(outcomes)].tag = "return"

\* the payload has the documented VisitHistoryResponse shape
Conforms(p) ==
    /\ p.top = "dict"
    /\ p.status.t = "bool"
    /\ p.message.t = "str"
    /\ p.data_t = "list"
    /\ \A i \in 1..Len(p.items) :
        /\ \A f \in ItemRequiredFields : p.items[i][f].t = "str"
        /\ p.items[i]["Patient_Visit_Registration_Note"].t \in {"str", "null"}

\* C11 as stated: whenever the 2xx payload deviates from the
\* VisitHistoryResponse shape, get_patient_visit_history raises instead of
\* returning a response.
C11_NoSilentDefaults ==
    (LastReturned /\ ~Conforms(LastPayload)) => fetch.tag = "raise"

\* C11 amended: get_patient_visit_history raises exactly when the payload is
\* not an object, `status` is absent or not coercible to a boolean, `message`
\* is absent or not a string, `data` is present but not a list, or a record
\* lacks a required field or has a non-string field; a missing `data`
\* becomes the empty list, a missing registration note becomes None and a
\* coercible `status` becomes the boolean it stands for.
C11_DecodeFailure ==
    LastReturned =>
        LET p == LastPayload
            status_ok == \/ p.status.t = "bool"
                         \/ p.status.t = "int" /\ p.status.n \in {0, 1}
                         \/ p.status.t = "str" /\ p.status.s \in
                              {"1", "on", "t", "true", "y", "yes", "0", "off", "f", "false", "n", "no"}
            record_ok(r) == /\ \A f \in ItemRequiredFields : r[f].t = "str"
                            /\ r["Patient_Visit_Registration_Note"].t \in {"str", "null", "missing"}
            accepted == /\ p.top = "dict" /\ status_ok /\ p.message.t = "str"
                        /\ p.data_t \in {"list", "missing"}
                        /\ \A i \in 1..Len(p.items) : record_ok(p.items[i]) IN
        /\ fetch.tag = (IF accepted THEN "return" ELSE "raise")
        /\ ~accepted => fetch.exc.type = "ValidationError"
        /\ (accepted /\ p.data_t = "missing") => fetch.resp.data = <<>>
        /\ (accepted /\ p.status.t = "str") => fetch.resp.status = (p.status.s \in {"1", "on", "t", "true", "y", "yes"})
        /\ accepted => \A i \in 1..Len(p.items) :
              p.items[i]["Patient_Visit_Registration_Note"].t = "missing"
                  => fetch.resp.data[i]["Patient_Visit_Registration_Note"].t = "null"

C11_Witness ==
    /\ LastReturned /\ LastPayload.data_t = "missing" /\ LastPayload.status.t = "str"
    /\ fetch.tag = "return" /\ fetch.resp.data = <<>> /\ fetch.resp.status = TRUE

\* C12 as stated: in a successful response `status` and `data` equal the
\* upstream payload's values exactly; only `message` may differ, and it is
\* the text llm.anonymize returned.
C12_UpstreamVerbatim ==
    (pc = "done" /\ fetch.tag = "return") =>
        LET p == LastPayload IN
        /\ p.status = JBool(response.history.status)
        /\ p.data_t = "list"
        /\ Len(response.history.data) = Len(p.items)
        /\ \A i \in 1..Len(p.items) : \A f \in ItemFields :
              response.history.data[i][f] = p.items[i][f]
        /\ llm_result.tag = "return" /\ llm_result.value.t = "str"
              => response.history.message = llm_result.value.s

\* C12 amended: in a successful response `status` and `data` are those of
\* the validated fetch result, only `message` may differ from it, and it is
\* the text llm.anonymize returned; when the upstream payload has the
\* documented shape they equal the payload's values field by field, in order.
C12_OnlyMessageChanges ==
    (pc = "done" /\ fetch.tag = "return") =>
        LET p == LastPayload IN
        /\ response.status_code = 200
        /\ response.history.status = fetch.resp.status
        /\ response.history.data = fetch.resp.data
        /\ (llm_result.tag = "return" /\ llm_result.value.t = "str")
              => response.history.message = llm_result.value.s
        /\ Conforms(p) =>
              /\ p.status = JBool(response.history.status)
              /\ Len(response.history.data) = Len(p.items)
              /\ \A i \in 1..Len(p.items) : \A f \in ItemFields :
                    response.history.data[i][f] = p.items[i][f]

C12_Witness ==
    /\ pc = "done" /\ fetch.tag = "return" /\ Conforms(LastPayload)
    /\ Len(response.history.data) = 2
    /\ response.history.data[1]["Past_MH"].s = "B"
    /\ response.history.data[2]["Past_MH"].s = "A"
    /\ llm_result.tag = "return"
    /\ response.history.message = "Patient_001 reports headache"

\* C14: llm.anonymize called with the empty string issues exactly one
\* upstream call, returns the first choice's text or none when the call
\* yields a completion, and raises only what the call or the completion
\* makes it raise, never because the input is empty.
C14_EmptyInput ==
    (pc = "done" /\ llm_result.tag # "none" /\ anonymize_input = "") =>
        /\ llm_calls = 1
        /\ Len(llm_outcomes) = 1
        /\ llm_result.tag = "return" => llm_result.value.t \in {"str", "null"}
        /\ llm_result.tag = "raise" =>
              llm_result.exc.type \in {e.type : e \in LLMExceptions} \cup {"IndexError"}

C14_Witness ==
    /\ pc = "done" /\ request.endpoint = "anonymize" /\ request.data = ""
    /\ llm_calls = 1 /\ llm_result.tag = "return"
    /\ llm_result.value = JStr("Patient_001 reports headache")
    /\ response.status_code = 200

IsSimplexRetryEntry(e) == e.event = "Retrying Simplex request"
IsOpenAIRetryEntry(e) == e.event = "Retrying OpenAI call"
IsClassificationEntry(e) ==
    e.event \in {"network_error", "invalid_json", "simplex_error_response"}

\* C15: a retry log entry is written once before each backoff sleep and at
\* no other time: n attempts give n-1 entries, the entry between attempt k
\* and k+1 carries k, the wait slept and the string and class of attempt k's
\* failure, and none follows the final attempt.
C15_RetryLog ==
    LET rl == SelectSeq(log, IsSimplexRetryEntry)
        n == Len(outcomes) IN
    /\ Len(rl) = (IF pc \in {"simplex_sleep", "simplex_call"} THEN n
                  ELSE IF n = 0 THEN 0 ELSE n - 1)
    /\ pc = "simplex_sleep" => (IsSimplexRetryEntry(log[Len(log)]) /\ Len(sleeps) = Len(rl) - 1)
    /\ pc # "simplex_sleep" => Len(sleeps) = Len(rl)
    /\ \A k \in 1..Len(rl) :
        /\ rl[k].attempt = k
        /\ rl[k].error = <<outcomes[k].exc.msg, outcomes[k].exc.code>>
        /\ rl[k].error_type = outcomes[k].exc.type
        /\ k <= Len(sleeps) => (sleeps[k].attempt = k /\ rl[k].wait_seconds = sleeps[k].seconds)
    /\ Len(SelectSeq(log, IsOpenAIRetryEntry)) =
          (IF pc = "llm_call" \/ llm_calls = 0 THEN llm_calls ELSE llm_calls - 1)

C15_Witness ==
    /\ pc = "done" /\ Len(outcomes) = 3
    /\ Len(SelectSeq(log, IsSimplexRetryEntry)) = 2
    /\ SelectSeq(log, IsSimplexRetryEntry)[2].attempt = 2
    /\ SelectSeq(log, IsSimplexRetryEntry)[2].wait_seconds = 4
    /\ SelectSeq(log, IsSimplexRetryEntry)[2].error_type = "SimplexRateLimitError"

\* C16: every failure raised by an attempt of _request is preceded, in that
\* attempt, by a log entry written where it is classified; for a non-2xx
\* status the entry carries the status code and the body, parsed when it
\* parses and raw otherwise.
C16_ClassificationLogged ==
    LET cl == SelectSeq(log, IsClassificationEntry)
        failed == {k \in 1..Len(outcomes) : outcomes[k].tag = "raise"} IN
    /\ Len(cl) = Cardinality(failed)
    /\ failed = 1..Cardinality(failed)
    /\ \A k \in failed :
        LET r == replies[k] IN
        IF r.transport # "ok" THEN cl[k].event = "network_error"
        ELSE IF r.status_code >= 200 /\ r.status_code < 300 THEN cl[k].event = "invalid_json"
        ELSE /\ cl[k].event = "simplex_error_response"
             /\ cl[k].status_code = r.status_code
             /\ cl[k].body = [is_json |-> r.is_json, payload |-> r.payload]
    /\ pc = "simplex_sleep" => IsClassificationEntry(log[Len(log) - 1])
    /\ (pc = "done" /\ fetch.tag = "raise" /\ outcomes[Len(outcomes)].tag = "raise")
          => IsClassificationEntry(log[Len(log) - 1])

C16_Witness ==
    /\ pc = "done" /\ fetch.tag = "raise" /\ Len(outcomes) = 2
    /\ replies[2].status_code = 404 /\ replies[2].is_json
    /\ SelectSeq(log, IsClassificationEntry)[2].status_code = 404
    /\ SelectSeq(log, IsClassificationEntry)[2].body.is_json

IsUnparseableSuccess(r) ==
    r.transport = "ok" /\ r.status_code >= 200 /\ r.status_code < 300 /\ ~r.is_json

\* C17 as stated: a 2xx response whose body cannot be parsed is classified
\* as a ServerError failure, the kind of a 5xx response.
C17_UnparseableIsServerError ==
    \A k \in 1..Len(replies) :
        IsUnparseableSuccess(replies[k]) =>
            (outcomes[k].tag = "raise" /\ outcomes[k].exc.type = "SimplexServerError")

\* C17 amended: a 2xx response whose body cannot be parsed is classified as
\* a ClientError failure, which is not the kind of a 5xx response and is not
\* retried.
C17_UnparseableIsClientError ==
    \A k \in 1..Len(replies) :
        /\ IsUnparseableSuccess(replies[k]) =>
            /\ outcomes[k].tag = "raise" /\ outcomes[k].exc.type = "SimplexClientError"
            /\ k = Len(replies) /\ http_calls = k
            /\ pc = "done" /\ fetch.tag = "raise" /\ fetch.exc = outcomes[k].exc
        /\ (replies[k].transport = "ok" /\ replies[k].status_code >= 500) =>
            (outcomes[k].tag = "raise" /\ outcomes[k].exc.type = "SimplexServerError")

C17_Witness ==
    /\ pc = "done" /\ http_calls = 1 /\ IsUnparseableSuccess(replies[1])
    /\ fetch.exc.type = "SimplexClientError"
    /\ fetch.exc.msg = "Failed to parse JSON response"

\* C18: on graceful shutdown both pooled HTTP clients are closed: once the
\* application has stopped no pooled client remains open.
C18_ShutdownClosesClients ==
    lifecycle.phase = "stopped" =>
        (lifecycle.AsyncOpenAI # "open" /\ lifecycle.SimplexService # "open")

\* C19: when the model-API call succeeds llm.anonymize returns the text of
\* the first choice, and none whenever the completion carries no content:
\* null content in the first choice, or no choices at all.
C19_FirstChoiceOrNone ==
    \A i \in 1..Len(llm_replies) :
        llm_replies[i].exc.type = "None" =>
            /\ llm_outcomes[i].tag = "return"
            /\ llm_outcomes[i].value =
                  (IF Len(llm_replies[i].choices) >= 1 /\ llm_replies[i].choices[1].t = "str"
                   THEN llm_replies[i].choices[1] ELSE JNull)

\* C13: the retry policy keeps no state across invocations: of several
\* interleaved calls of _request each has its own budget of 3 attempts and
\* its own backoff sequence, whatever the other calls do.
C13_IndependentBudgets ==
    \A c \in 1..NumCalls :
        LET st == calls[c]
            n == Len(st.outs)
            retryable(i) == st.outs[i].tag = "raise" /\ st.outs[i].exc.type \in RetryableKinds IN
        /\ st.http_calls = n
        /\ n <= 3
        /\ \A i \in 1..n : i < n => retryable(i)
        /\ st.pc = "sleep" => (n < 3 /\ retryable(n) /\ Len(st.sleeps) = n - 1)
        /\ st.pc = "call" => Len(st.sleeps) = n
        /\ st.pc \in {"returned", "raised"} => Len(st.sleeps) = n - 1
        /\ (st.pc = "raised" /\ retryable(n)) => n = 3
        /\ st.pc = "returned" => st.outs[n].tag = "return"
        /\ \A k \in 1..Len(st.sleeps) : st.sleeps[k] = (IF k = 1 THEN 2 ELSE 4)

C13_Witness ==
    /\ calls[1].pc = "raised" /\ calls[1].http_calls = 3 /\ calls[1].sleeps = <<2, 4>>
    /\ calls[2].pc = "sleep" /\ calls[2].http_calls = 1

\* C20: every inbound request is eventually answered, given that each
\* upstream call eventually returns or fails; the handler answers only after
\* the outbound call and all its retries have ended; one request makes at
\* most 3 hospital-API HTTP calls.
C20_EventuallyResponds ==
    /\ (pc \in {"simplex_call", "simplex_sleep", "llm_call"}) ~> (pc = "done")
    /\ [](http_calls <= 3)
    /\ [](response.status_code # 0 =>
            /\ pc = "done"
            /\ request.endpoint = "anonymize" => llm_result.tag # "none"
            /\ request.endpoint = "patient-visit-histories" =>
                  /\ fetch.tag # "none"
                  /\ fetch.tag = "return" => llm_result.tag # "none"
                  /\ http_calls = Len(outcomes)
                  /\ Len(sleeps) = http_calls - 1)
    /\ [](pc = "done" => response.status_code # 0)

C20_Witness ==
    /\ pc = "done" /\ http_calls = 3 /\ Len(sleeps) = 2
    /\ fetch.tag = "return" /\ llm_result.tag = "return"
    /\ response.status_code = 200

\* what the retry policy does after attempt k of _request ended with `out`:
\* where the request is suspended next
RetryDecision(out, k) ==
    IF out.tag = "return"
    THEN IF model_validate_ok(out.value) THEN "llm_call" ELSE "done"
    ELSE IF out.exc.type \in RetryableKinds /\ k < 3
    THEN "simplex_sleep"
    ELSE "done"

\* C21: the retry decision after each attempt of _request depends only on
\* that attempt's outcome and the attempt count, whatever the earlier
\* attempts were: a success on attempt k (k <= 3) hands on the value decoded
\* from that attempt's reply and no further HTTP call is made; a non-retryable
\* failure on attempt k reaches the caller at once with exactly k calls made;
\* a retryable failure on attempt k < 3 is followed by the backoff sleep and
\* then by attempt k+1.
C21_RetryDecision ==
    /\ [][Len(outcomes') = Len(outcomes) + 1 =>
            LET k == Len(outcomes')
                out == outcomes'[k] IN
            /\ k = attempt_number /\ k <= 3
            /\ http_calls' = k
            /\ pc' = RetryDecision(out, k)
            /\ out.tag = "return" =>
                  /\ out.value = replies'[k].payload
                  /\ fetch'.tag = "return" => fetch'.resp = model_validate(out.value)
            /\ (out.tag = "raise" /\ pc' = "done") =>
                  (fetch'.tag = "raise" /\ fetch'.exc = out.exc)]_vars
    /\ [](\A i \in 1..Len(outcomes) :
            /\ outcomes[i].tag = "return" =>
                  (i = Len(outcomes) /\ http_calls = i /\ pc \in {"llm_call", "done"})
            /\ (outcomes[i].tag = "raise" /\ outcomes[i].exc.type \notin RetryableKinds) =>
                  (i = Len(outcomes) /\ http_calls = i /\ pc = "done")
            /\ (AttemptFailedWith(i, RetryableKinds) /\ i < 3 /\ i = Len(outcomes)) =>
                  (pc = "simplex_sleep" \/ (pc = "simplex_call" /\ attempt_number = i + 1)))
    /\ \A k \in 1..2 :
          (Len(outcomes) = k /\ AttemptFailedWith(k, RetryableKinds))
              ~> (Len(outcomes) = k + 1 /\ http_calls = k + 1)

C21_Witness ==
    /\ pc = "done" /\ http_calls = 3 /\ Len(outcomes) = 3
    /\ AttemptFailedWith(1, {"SimplexServerError"})
    /\ AttemptFailedWith(2, {"SimplexNetworkError"})
    /\ AttemptFailedWith(3, {"SimplexNotFoundError"})
    /\ fetch.tag = "raise" /\ fetch.exc = outcomes[3].exc

\* the payload attempt i returned fails the shape validation of the
\* operation in flight
DecodeFails(i) ==
    /\ outcomes[i].tag = "return"
    /\ IF request.endpoint = "appointments-by-date"
       THEN ~appointments_validate_ok(outcomes[i].value)
       ELSE ~model_validate_ok(outcomes[i].value)

\* C22: a shape-validation failure in get_patient_visit_history or
\* appointments_by_date is never retried: the attempt whose 2xx JSON payload
\* fails validation is the last HTTP call of the request, no backoff sleep
\* follows it, and when it is the first attempt the hospital API has been
\* called exactly once; the validation error reaches the caller, and the
\* visit-history handler answers 502.
C22_DecodeFailureNotRetried ==
    \A i \in 1..Len(outcomes) :
        DecodeFails(i) =>
            /\ i = Len(outcomes) /\ http_calls = i
            /\ i = 1 => http_calls = 1
            /\ Len(sleeps) = i - 1
            /\ pc = "done"
            /\ fetch.tag = "raise" /\ fetch.exc.type = "ValidationError"
            /\ request.endpoint = "patient-visit-histories" =>
                  /\ response.status_code = HTTP_502_BAD_GATEWAY
                  /\ response.detail = <<"Failed to fetch patient visit history", 0>>
                  /\ llm_calls = 0

C22_Witness ==
    /\ request.endpoint = "patient-visit-histories"
    /\ Len(outcomes) = 1 /\ DecodeFails(1)
    /\ replies[1].status_code = 200 /\ replies[1].is_json
    /\ http_calls = 1 /\ sleeps = <<>>
    /\ response.status_code = HTTP_502_BAD_GATEWAY

====
